---- MODULE Spec2Model ----
(***************************************************************************)
(* The inventory engine of src/inventory-system.js: the InventorySystem    *)
(* base class and its GardenInventory subclass, as a state machine.        *)
(*                                                                         *)
(* One action per inbound message kind; each action runs the whole         *)
(* handler (handlePortalsMessage -> handleUnityMessage -> store / resolver *)
(* operation -> sendTaskUpdate / saveInventory) in one step, because the   *)
(* code is synchronous and single-threaded.                                *)
(*                                                                         *)
(* The methods are operators over an "engine record" e that carries the    *)
(* fields of `this` plus the observable effects of the running call:       *)
(*   e.inventory        this.inventory, a Map in insertion order:          *)
(*                      a sequence of entries [key, item]                  *)
(*   e.portalsVariables this.portalsVariables                              *)
(*   e.maxSlots, e.autoSave   options fixed at construction                *)
(*   e.storage          the localStorage slot at this.storageKey           *)
(*   e.writeOk          whether localStorage.setItem succeeds in this call *)
(*   e.out              what the call has emitted so far, in order:        *)
(*                      notifications handed to PortalsSdk and flushes     *)
(*   e.err              the exception in flight ("" = none)                *)
(*   e.ret              the value returned by the last completed method    *)
(* Date.now() stamps (addedAt, lastModified, exportedAt) carry no          *)
(* behaviour and are left out of the records.                              *)
(***************************************************************************)
EXTENDS Integers, Sequences, FiniteSets, TLC

\* ------------------------------------------------------------------ bounds
MaxSlots == 2      \* options.maxSlots ranges over 1..MaxSlots
MaxQty == 2        \* stored quantities stay <= MaxQty; arguments range up to it
MaxNeg == 1        \* stored quantities stay >= -MaxNeg; arguments range down to it
MaxLevel == 2      \* tool levels stay <= MaxLevel

\* An argument or payload field that is not given (JavaScript undefined; the
\* default parameter of removeItem turns it into null).
Undefined == -99

NoErr == ""

\* ------------------------------------------------------- JavaScript values
HasField(obj, f) == f \in DOMAIN obj

\* obj.f for a string-valued field, "" when the field is missing (falsy both).
StrField(obj, f) == IF HasField(obj, f) THEN obj[f] ELSE ""

\* obj.f for a number-valued field.
NumField(obj, f) == IF HasField(obj, f) THEN obj[f] ELSE Undefined

\* The value undefined where an object is expected (a missing payload field).
UndefinedObj == [undefined |-> TRUE]

ObjField(obj, f) == IF HasField(obj, f) THEN obj[f] ELSE UndefinedObj

\* a < b as JavaScript evaluates it: a comparison with undefined is false.
Less(a, b) == a # Undefined /\ b # Undefined /\ a < b

\* x || 1 on a number: 0 and undefined are falsy.
OrOne(x) == IF x = Undefined \/ x = 0 THEN 1 ELSE x

\* Object.assign(target, source) / { ...target, ...source }.
Assign(target, source) == source @@ target

\* ------------------------------------------------------------ Map (line 11)
MapHas(m, k) == \E i \in 1..Len(m) : m[i].key = k

MapGet(m, k) == m[CHOOSE i \in 1..Len(m) : m[i].key = k].item

\* Map.set keeps the position of an existing key and appends a new one.
MapSet(m, k, v) ==
  IF MapHas(m, k)
  THEN [i \in 1..Len(m) |-> IF m[i].key = k THEN [key |-> k, item |-> v] ELSE m[i]]
  ELSE Append(m, [key |-> k, item |-> v])

MapDelete(m, k) == SelectSeq(m, LAMBDA en : en.key # k)

\* ------------------------------------------------------------ engine record
Throw(e, kind) == [e EXCEPT !.err = kind]

Return(e, value) == [e EXCEPT !.ret = value]

\* A catch clause: the exception stops here.
Catch(e) == [e EXCEPT !.caught = e.err, !.err = NoErr]

\* Statement sequencing: the rest of a method body runs on the engine left by
\* a call only when that call did not throw.
Then(e, Rest(_)) == IF e.err # NoErr THEN e ELSE Rest(e)

taskPrefix == "inventory"

\* PortalsSdk is a global of the host page. The engine is specified against a
\* transport that is present and delivers (spec section 1).
PortalsSdkDefined == TRUE

Notify(taskName, taskTargetState) ==
  [kind |-> "notify", task |-> taskName, state |-> taskTargetState]

\* localStorage.setItem was called (and threw, when ok is FALSE).
Flush(ok) ==
  [kind |-> "save", task |-> [prefix |-> "", action |-> "", itemId |-> <<>>],
   state |-> IF ok THEN "written" ELSE "failed"]

sendTaskUpdate(e, taskName, taskTargetState) ==
  IF ~PortalsSdkDefined THEN e
  ELSE [e EXCEPT !.out = Append(@, Notify(taskName, taskTargetState))]

\* `${prefix}_${action}${itemId ? '_' + itemId : ''}`, kept as its three parts.
\* itemId is the sequence of the pieces the caller joins with "_" (<<>> for the
\* empty string, which is falsy and adds no suffix).
getTaskName(action, itemId) ==
  [prefix |-> taskPrefix, action |-> action, itemId |-> itemId]

\* { id, ...item }: the item's own id field overrides the key.
exportData(e) ==
  [items |-> [i \in 1..Len(e.inventory) |->
                Assign([id |-> e.inventory[i].key], e.inventory[i].item)],
   metadata |-> [maxSlots |-> e.maxSlots, itemCount |-> Len(e.inventory)]]

\* JSON.stringify: the blob kept in localStorage.
Stringify(data) == [kind |-> "json", data |-> data]

NoBlob == [kind |-> "none"]

saveInventory(e) ==
  IF ~e.autoSave THEN e
  ELSE IF e.writeOk
       THEN [e EXCEPT !.storage = Stringify(exportData(e)),
                      !.out = Append(@, Flush(TRUE))]
       ELSE [e EXCEPT !.out = Append(@, Flush(FALSE))]

\* ---------------------------------------------------------------- Item Store
Truthy(s) == s # ""

\* Mutant of InventoryFull: the store counts as full one record too late.
InventoryFull_OffByOne(e, item) ==
  Len(e.inventory) > e.maxSlots /\ ~MapHas(e.inventory, item.id)

\* this.inventory.size >= this.maxSlots && !this.inventory.has(item.id)
InventoryFull(e, item) ==
  Len(e.inventory) >= e.maxSlots /\ ~MapHas(e.inventory, item.id)

\* quantity = 1 when the argument is undefined (default parameter).
addItem(e, item, quantityArg) ==
  LET quantity == IF quantityArg = Undefined THEN 1 ELSE quantityArg IN
  IF item = UndefinedObj THEN Throw(e, "TypeError")
  ELSE IF ~Truthy(StrField(item, "id")) \/ ~Truthy(StrField(item, "name"))
          \/ ~Truthy(StrField(item, "type"))
  THEN Throw(e, "InvalidItem")
  ELSE IF InventoryFull(e, item)
  THEN Throw(sendTaskUpdate(e, getTaskName("full", <<>>), "SetNotActiveToActive"),
             "CapacityExceeded")
  ELSE IF MapHas(e.inventory, item.id)
  THEN LET existingItem == MapGet(e.inventory, item.id)
           merged == [existingItem EXCEPT !.quantity = @ + quantity]
           e1 == [e EXCEPT !.inventory = MapSet(@, item.id, merged)]
           e2 == sendTaskUpdate(e1, getTaskName("item_updated", <<item.id>>),
                                "SetNotActiveToActive")
       IN Return(saveInventory(e2), merged)
  ELSE LET newItem == Assign(item, [quantity |-> quantity])
           e1 == [e EXCEPT !.inventory = MapSet(@, item.id, newItem)]
           e2 == sendTaskUpdate(e1, getTaskName("item_added", <<item.id>>),
                                "SetNotActiveToCompleted")
       IN Return(saveInventory(e2), newItem)

\* Mutant of RemovesAll: a removal of exactly the held quantity is partial.
RemovesAll_OffByOne(item, quantity) ==
  quantity = Undefined \/ quantity > item.quantity

\* quantity === null || quantity >= item.quantity
RemovesAll(item, quantity) ==
  quantity = Undefined \/ quantity >= item.quantity

removeItem(e, itemId, quantity) ==
  IF ~MapHas(e.inventory, itemId) THEN Throw(e, "NotFound")
  ELSE LET item == MapGet(e.inventory, itemId) IN
    IF RemovesAll(item, quantity)
    THEN LET e1 == [e EXCEPT !.inventory = MapDelete(@, itemId)]
             e2 == sendTaskUpdate(e1, getTaskName("item_removed", <<itemId>>),
                                  "SetActiveToCompleted")
         IN Return(saveInventory(e2), [removed |-> TRUE, quantity |-> item.quantity])
    ELSE LET left == [item EXCEPT !.quantity = @ - quantity]
             e1 == [e EXCEPT !.inventory = MapSet(@, itemId, left)]
             e2 == sendTaskUpdate(e1, getTaskName("item_updated", <<itemId>>),
                                  "SetActiveToActive")
         IN Return(saveInventory(e2),
                   [removed |-> FALSE, quantity |-> quantity,
                    remaining |-> left.quantity])


\* The value null where an object is expected (getItem of an absent id).
NullObj == [null |-> TRUE]

getItem(e, itemId) ==
  IF MapHas(e.inventory, itemId) THEN MapGet(e.inventory, itemId) ELSE NullObj

\* Object.assign skips an undefined source.
updateItem(e, itemId, updates) ==
  IF ~MapHas(e.inventory, itemId) THEN Throw(e, "NotFound")
  ELSE LET item == MapGet(e.inventory, itemId)
           patched == IF updates = UndefinedObj THEN item ELSE Assign(item, updates)
           e1 == [e EXCEPT !.inventory = MapSet(@, itemId, patched)]
           e2 == sendTaskUpdate(e1, getTaskName("item_updated", <<itemId>>),
                                "SetActiveToActive")
       IN Return(saveInventory(e2), patched)

getInventory(e) ==
  [items |-> [i \in 1..Len(e.inventory) |-> e.inventory[i].item],
   count |-> Len(e.inventory),
   maxSlots |-> e.maxSlots,
   emptySlots |-> e.maxSlots - Len(e.inventory)]

getItemsByCategory(e, category) ==
  LET matches(en) == StrField(en.item, "category") = category
                     \/ StrField(en.item, "type") = category
      kept == SelectSeq(e.inventory, matches)
  IN [i \in 1..Len(kept) |-> kept[i].item]

\* Mutant of Consumable: every record counts as consumable.
Consumable_Always(item) == HasField(item, "id")

\* !item.consumable
Consumable(item) == HasField(item, "consumable") /\ item.consumable

useItem(e, itemId, quantity) ==
  IF ~MapHas(e.inventory, itemId) THEN Throw(e, "NotFound")
  ELSE LET item == MapGet(e.inventory, itemId) IN
    IF Less(item.quantity, quantity) THEN Throw(e, "InsufficientQuantity")
    ELSE IF ~Consumable(item) /\ item.type # "seed" /\ item.type # "fertilizer"
    THEN Throw(e, "NotConsumable")
    ELSE Then(removeItem(e, itemId, quantity),
              LAMBDA e1 :
                Return(sendTaskUpdate(e1, getTaskName("item_used", <<itemId>>),
                                      "SetActiveToCompleted"),
                       [success |-> TRUE, itemId |-> itemId, quantity |-> quantity]))

\* Mutant of transferItem: the notification names the item only.
transferItem_TargetUnnamed(e, itemId, quantity, targetId) ==
  LET item == getItem(e, itemId) IN
  IF item = NullObj THEN Throw(e, "NotFound")
  ELSE IF Less(item.quantity, quantity) THEN Throw(e, "InsufficientQuantity")
  ELSE Then(removeItem(e, itemId, quantity),
            LAMBDA e1 :
              Return(sendTaskUpdate(e1, getTaskName("transfer", <<itemId>>),
                                    "SetActiveToCompleted"),
                     [success |-> TRUE, itemId |-> itemId, quantity |-> quantity,
                      targetId |-> targetId]))

transferItem(e, itemId, quantity, targetId) ==
  LET item == getItem(e, itemId) IN
  IF item = NullObj THEN Throw(e, "NotFound")
  ELSE IF Less(item.quantity, quantity) THEN Throw(e, "InsufficientQuantity")
  ELSE Then(removeItem(e, itemId, quantity),
            LAMBDA e1 :
              Return(sendTaskUpdate(e1, getTaskName("transfer", <<itemId, "to", targetId>>),
                                    "SetActiveToCompleted"),
                     [success |-> TRUE, itemId |-> itemId, quantity |-> quantity,
                      targetId |-> targetId]))

\* Mutant of clearInventory: the notification carries the token of an update.
clearInventory_WrongToken(e) ==
  LET e1 == [e EXCEPT !.inventory = <<>>]
      e2 == sendTaskUpdate(e1, getTaskName("cleared", <<>>), "SetActiveToActive")
  IN Return(saveInventory(e2), [cleared |-> Len(e.inventory)])

clearInventory(e) ==
  LET e1 == [e EXCEPT !.inventory = <<>>]
      e2 == sendTaskUpdate(e1, getTaskName("cleared", <<>>), "SetActiveToCompleted")
  IN Return(saveInventory(e2), [cleared |-> Len(e.inventory)])

syncPortalsVariable(e, variableName, value) ==
  Return([e EXCEPT !.portalsVariables = (variableName :> value) @@ @],
         [synced |-> variableName, value |-> value])

\* ------------------------------------------------------ Persistence Gateway
RECURSIVE SetAll(_, _, _)
\* data.items.forEach(item => this.inventory.set(item.id, item))
SetAll(m, items, i) ==
  IF i > Len(items) THEN m
  ELSE SetAll(MapSet(m, StrField(items[i], "id"), items[i]), items, i + 1)

\* Array.isArray(data.items). Values carry no type here: an array is a
\* sequence, and data whose items field holds anything else is marked with
\* the field itemsIsObject.
ItemsIsArray(data) == ~HasField(data, "itemsIsObject")

\* this.sendToParent is defined nowhere in the class: the call on line 522
\* throws a TypeError after the store has been replaced.
importData(e, data) ==
  IF ~HasField(data, "items") \/ ~ItemsIsArray(data)
  THEN Throw(e, "InvalidImportData")
  ELSE Throw([e EXCEPT !.inventory = SetAll(<<>>, data.items, 1)], "TypeError")

\* Mutant of loadInventory: no try / catch around the read.
loadInventory_NoCatch(e) ==
  IF e.storage.kind = "none" THEN e
  ELSE IF e.storage.kind = "corrupt" THEN Throw(e, "SyntaxError")
  ELSE importData(e, e.storage.data)

\* localStorage.getItem then JSON.parse; every exception is caught and logged.
\* A blob that is not JSON makes JSON.parse throw a SyntaxError.
loadInventory(e) ==
  IF e.storage.kind = "none" THEN e
  ELSE IF e.storage.kind = "corrupt" THEN Catch(Throw(e, "SyntaxError"))
  ELSE Catch(importData(e, e.storage.data))

\* new GardenInventory(options) on a page whose localStorage holds `storage`.
Construct(options, storage) ==
  IF options.autoSave
  THEN loadInventory([inventory |-> <<>>, portalsVariables |-> <<>>,
                      maxSlots |-> options.maxSlots, autoSave |-> TRUE,
                      storage |-> storage, writeOk |-> TRUE,
                      out |-> <<>>, err |-> NoErr, caught |-> NoErr, ret |-> NullObj])
  ELSE [inventory |-> <<>>, portalsVariables |-> <<>>,
        maxSlots |-> options.maxSlots, autoSave |-> FALSE,
        storage |-> storage, writeOk |-> TRUE,
        out |-> <<>>, err |-> NoErr, caught |-> NoErr, ret |-> NullObj]

\* --------------------------------------------------- Recipe / Craft Resolver
categories ==
  [SEEDS |-> "seeds", PLANTS |-> "plants", TOOLS |-> "tools",
   FERTILIZER |-> "fertilizer", DECORATIONS |-> "decorations",
   RESOURCES |-> "resources"]

plantSeed(e, payload) ==
  LET seedId == StrField(payload, "seedId")
      plotId == StrField(payload, "plotId")
      seed == getItem(e, seedId)
  IN IF seed = NullObj \/ seed.type # categories.SEEDS THEN Throw(e, "InvalidSeed")
     ELSE Then(useItem(e, seedId, 1),
               LAMBDA e1 :
                 Return(sendTaskUpdate(e1, getTaskName("seed_planted", <<seedId, plotId>>),
                                       "SetNotActiveToCompleted"),
                        [success |-> TRUE, plotId |-> plotId,
                         seedType |-> StrField(seed, "plantType"),
                         growthTime |-> NumField(seed, "growthTime")]))

harvestPlant(e, payload) ==
  LET plotId == StrField(payload, "plotId")
      produce == ObjField(payload, "produce")
  IN IF produce = UndefinedObj THEN Throw(e, "TypeError")
     ELSE Then(addItem(e, ObjField(produce, "item"), NumField(produce, "quantity")),
               LAMBDA e1 :
                 Return(sendTaskUpdate(e1, getTaskName("plant_harvested",
                                                       IF plotId = "" THEN <<>>
                                                       ELSE <<plotId>>),
                                       "SetActiveToCompleted"),
                        [success |-> TRUE, plotId |-> plotId, produce |-> produce]))

\* Mutant of Insufficient: only the first material is validated.
Insufficient_FirstOnly(e, materials, factor) ==
  /\ Len(materials) >= 1
  /\ LET hasItem == getItem(e, materials[1].id) IN
     hasItem = NullObj \/ Less(hasItem.quantity, materials[1].quantity * factor)

\* The validation loop of craftItem and upgradeTool: some material is absent
\* or held in less than material.quantity * factor.
Insufficient(e, materials, factor) ==
  \E i \in 1..Len(materials) :
    LET hasItem == getItem(e, materials[i].id) IN
    hasItem = NullObj \/ Less(hasItem.quantity, materials[i].quantity * factor)

RECURSIVE Consume(_, _, _, _)
\* materials.forEach(material => this.removeItem(material.id, material.quantity * factor)),
\* cut short by the first removeItem that throws.
Consume(e, materials, factor, i) ==
  IF i > Len(materials) \/ e.err # NoErr THEN e
  ELSE Consume(removeItem(e, materials[i].id, materials[i].quantity * factor),
               materials, factor, i + 1)

\* The tail of upgradeTool, on the engine e1 left by the consumption. `tool` is
\* the object that was held under toolId: a partial removal changed it in
\* place, a full removal took it out of the Map and the upgrade then lands on
\* the detached object. efficiency is kept as the number of 1.2 factors
\* applied to it: (tool.efficiency || 1) * 1.2 adds one.
ApplyUpgrade(e1, tool, toolId) ==
  LET held == getItem(e1, toolId)
      now == IF held = NullObj THEN tool ELSE held
      level == IF HasField(now, "level") /\ now.level # 0 THEN now.level ELSE 1
      efficiency == IF HasField(now, "efficiency") THEN now.efficiency ELSE 0
      upgraded == Assign(now, [level |-> level + 1, efficiency |-> efficiency + 1])
      e2 == IF held = NullObj THEN e1
            ELSE [e1 EXCEPT !.inventory = MapSet(@, toolId, upgraded)]
      e3 == sendTaskUpdate(e2, getTaskName("tool_upgraded", <<toolId>>),
                           "SetActiveToCompleted")
  IN Return(saveInventory(e3), [success |-> TRUE, tool |-> upgraded])

upgradeTool(e, payload) ==
  LET toolId == StrField(payload, "toolId")
      tool == getItem(e, toolId)
  IN IF tool = NullObj \/ tool.type # categories.TOOLS THEN Throw(e, "InvalidTool")
     ELSE IF ~HasField(payload, "upgradeMaterials") THEN Throw(e, "TypeError")
     ELSE IF Insufficient(e, payload.upgradeMaterials, 1)
     THEN Throw(e, "InsufficientMaterial")
     ELSE Then(Consume(e, payload.upgradeMaterials, 1, 1),
               LAMBDA e1 : ApplyUpgrade(e1, tool, toolId))

craftItem(e, payload) ==
  LET recipe == ObjField(payload, "recipe")
      quantity == IF HasField(payload, "quantity") THEN payload.quantity ELSE 1
  IN IF recipe = UndefinedObj \/ ~HasField(recipe, "materials") THEN Throw(e, "TypeError")
     ELSE IF Insufficient(e, recipe.materials, quantity)
     THEN Throw(e, "InsufficientMaterial")
     ELSE Then(Consume(e, recipe.materials, quantity, 1),
               LAMBDA e1 :
                 Then(addItem(e1, ObjField(recipe, "result"), quantity),
                      LAMBDA e2 :
                        Return(sendTaskUpdate(e2, getTaskName("item_crafted",
                                                              <<recipe.result.id>>),
                                              "SetNotActiveToCompleted"),
                               [success |-> TRUE, crafted |-> recipe.result,
                                quantity |-> quantity])))

\* ------------------------------------------------------- Command Dispatcher
\* Mutant of CatchAndReport: the failure is caught and only logged.
CatchAndReport_Silent(r, prefix, action) ==
  IF r.err # NoErr THEN Catch(r) ELSE r

\* try { ... } catch (error) { this.sendTaskUpdate(`${prefix}_error_${action}`, ...) }
\* around the engine r left by the body of the try.
CatchAndReport(r, prefix, action) ==
  IF r.err # NoErr
  THEN sendTaskUpdate(Catch(r),
                      [prefix |-> prefix, action |-> "error", itemId |-> <<action>>],
                      "SetActiveToNotActive")
  ELSE r

\* try { ... } catch (error) { this.log(...) } of handlePortalsMessage.
CatchAndLog(r) == IF r.err # NoErr THEN Catch(r) ELSE r

BaseActions ==
  {"addItem", "removeItem", "getInventory", "getItem", "updateItem", "useItem",
   "transferItem", "clearInventory", "getCategory", "syncVariable"}

GardenActions == {"plantSeed", "harvestPlant", "upgradeTool", "craftItem"}

\* InventorySystem.handleUnityMessage
handleUnityMessage(e, message) ==
  LET action == message.action
      params == message
  IN CatchAndReport(
       CASE action = "addItem" ->
              addItem(e, ObjField(params, "item"), OrOne(NumField(params, "quantity")))
         [] action = "removeItem" ->
              removeItem(e, StrField(params, "itemId"), NumField(params, "quantity"))
         [] action = "getInventory" ->
              sendTaskUpdate(Return(e, getInventory(e)),
                             [prefix |-> "inventory", action |-> "data",
                              itemId |-> <<"response">>],
                             "SetNotActiveToActive")
         [] action = "getItem" ->
              Return(e, getItem(e, StrField(params, "itemId")))
         [] action = "updateItem" ->
              updateItem(e, StrField(params, "itemId"), ObjField(params, "updates"))
         [] action = "useItem" ->
              useItem(e, StrField(params, "itemId"), OrOne(NumField(params, "quantity")))
         [] action = "transferItem" ->
              transferItem(e, StrField(params, "itemId"), NumField(params, "quantity"),
                           StrField(params, "targetId"))
         [] action = "clearInventory" -> clearInventory(e)
         [] action = "getCategory" ->
              Return(e, [items |-> getItemsByCategory(e, StrField(params, "category"))])
         [] action = "syncVariable" ->
              syncPortalsVariable(e, StrField(params, "name"), NumField(params, "value"))
         [] OTHER -> e,
       "inventory", action)

\* GardenInventory.handleUnityMessage
Garden_handleUnityMessage(e, message) ==
  LET action == message.action
      params == message
  IN CatchAndReport(
       CASE action = "plantSeed" -> plantSeed(e, params)
         [] action = "harvestPlant" -> harvestPlant(e, params)
         [] action = "upgradeTool" -> upgradeTool(e, params)
         [] action = "craftItem" -> craftItem(e, params)
         [] OTHER -> handleUnityMessage(e, message),
       "garden", action)

\* parseFloat on the numeric strings the model sends.
parseFloat(text) == CASE text = "820" -> 820 [] OTHER -> 0

\* A transport message is [type, data]: type "object" with data a record,
\* type "numeric" / "plain" for a string data.text that is a number / is not
\* JSON, and type "json" for a string that JSON.parse turns into the record
\* data.
handlePortalsMessage(e, message) ==
  CatchAndLog(
    CASE message.type = "numeric" ->
           syncPortalsVariable(e, "_lastValue", parseFloat(message.data.text))
      [] message.type = "plain" ->
           syncPortalsVariable(e, "_lastString", message.data.text)
      [] OTHER ->
           IF StrField(message.data, "action") # ""
           THEN Garden_handleUnityMessage(e, message.data)
           ELSE e)

\* ------------------------------------------------------------------- state
VARIABLES
  inventory,         \* this.inventory
  portalsVariables,  \* this.portalsVariables
  maxSlots,          \* this.maxSlots
  autoSave,          \* this.autoSave
  storage,           \* localStorage[this.storageKey]
  pc,                \* "idle": the listener waits; "handled": it has just run
  msg,               \* the transport message (or direct call) it ran on
  pre,               \* this.inventory when its handling began
  out,               \* the notifications and flushes of its handling, in order
  caught,            \* the failure its handler caught ("" = none)
  escaped,           \* the failure that left its handler uncaught ("" = none)
  ret                \* the value the operation returned

vars ==
  <<inventory, portalsVariables, maxSlots, autoSave, storage,
    pc, msg, pre, out, caught, escaped, ret>>

\* ----------------------------------------------------------- bounded inputs
Ids == {"wood", "seed", "axe"}

QtyArgs == (0 - MaxNeg)..MaxQty

WoodItem == [id |-> "wood", name |-> "Wood", type |-> "resource"]

SeedItem == [id |-> "seed", name |-> "Seed", type |-> "seed"]

SeedsItem ==
  [id |-> "seed", name |-> "Seed", type |-> "seeds", consumable |-> TRUE,
   plantType |-> "tomato", growthTime |-> 5]

ToolItem == [id |-> "axe", name |-> "Axe", type |-> "tool"]

ToolsItem == [id |-> "axe", name |-> "Axe", type |-> "tools"]

NamelessItem == [id |-> "wood", type |-> "resource"]

ValidItems == {WoodItem, SeedItem, SeedsItem, ToolItem, ToolsItem}

Patches == {[quantity |-> 0]}

Material(id, q) == [id |-> id, name |-> id, quantity |-> q]

MaterialLists ==
  {<<Material("wood", 1)>>,
   <<Material("wood", 2), Material("seed", 1)>>,
   <<Material("wood", 1), Material("wood", 1)>>,
   <<Material("wood", 1), Material("wood", 2)>>,
   <<Material("axe", 1)>>}

Recipes ==
  {[materials |-> m, result |-> r] :
     m \in MaterialLists, r \in {ToolsItem, WoodItem, NamelessItem}}

\* base, and base with field f set to each value of S.
Optional(base, f, S) == {base} \cup {(f :> v) @@ base : v \in S}

Object(data) == [type |-> "object", data |-> data]

NoMessage == [type |-> "none"]

AddItemMessages ==
  UNION {Optional(b, "quantity", QtyArgs) :
           b \in {[action |-> "addItem"]}
                 \cup {[action |-> "addItem", item |-> i] :
                         i \in ValidItems \cup {NamelessItem}}}

RemoveItemMessages ==
  {[action |-> "removeItem"]}
  \cup UNION {Optional(b, "quantity", QtyArgs) :
                b \in {[action |-> "removeItem", itemId |-> i] : i \in Ids}}

UpdateItemMessages ==
  UNION {Optional([action |-> "updateItem", itemId |-> i], "updates", Patches) :
           i \in Ids}

UseItemMessages ==
  UNION {Optional(b, "quantity", QtyArgs) :
           b \in {[action |-> "useItem", itemId |-> i] : i \in Ids}}

\* The target is an entity outside the store, or the id of a record.
TransferItemMessages ==
  UNION {Optional(b, "quantity", QtyArgs) :
           b \in {[action |-> "transferItem", itemId |-> i, targetId |-> t] :
                    i \in Ids, t \in {"market", "axe"}}}

QueryMessages ==
  {[action |-> "getInventory"], [action |-> "getCategory", category |-> "seed"]}
  \cup {[action |-> "getItem", itemId |-> i] : i \in Ids}

PlantSeedMessages ==
  {[action |-> "plantSeed", seedId |-> i, plotId |-> "plot1"] : i \in Ids}

HarvestPlantMessages ==
  {[action |-> "harvestPlant", plotId |-> "plot1"]}
  \cup {[action |-> "harvestPlant", plotId |-> "plot1", produce |-> p] :
          p \in UNION {Optional([item |-> i], "quantity", QtyArgs) :
                         i \in {WoodItem, NamelessItem}}}

UpgradeToolMessages ==
  UNION {Optional([action |-> "upgradeTool", toolId |-> i], "upgradeMaterials",
                  MaterialLists) : i \in Ids}

CraftItemMessages ==
  UNION {Optional(b, "quantity", {MaxQty}) :
           b \in {[action |-> "craftItem"]}
                 \cup {[action |-> "craftItem", recipe |-> r] : r \in Recipes}}

\* What exportData returns on a store that holds one wood, and its blob.
SavedData ==
  [items |-> <<Assign(WoodItem, [quantity |-> 1])>>,
   metadata |-> [maxSlots |-> MaxSlots, itemCount |-> 1]]

SavedBlob == Stringify(SavedData)

\* Parsed data without an items field.
ItemlessData == [metadata |-> [maxSlots |-> MaxSlots, itemCount |-> 0]]

\* Parsed data whose items field is an object keyed by id, not an array.
KeyedData ==
  [items |-> [wood |-> Assign(WoodItem, [quantity |-> 1])],
   itemsIsObject |-> TRUE,
   metadata |-> [maxSlots |-> MaxSlots, itemCount |-> 1]]

\* A blob that JSON.parse rejects.
CorruptBlob == [kind |-> "corrupt"]

\* What localStorage may hold under the storageKey when a page is loaded.
Blobs ==
  {NoBlob, CorruptBlob, Stringify(ItemlessData), Stringify(KeyedData), SavedBlob}

\* ------------------------------------------------------------------ actions
\* Stored numbers stay inside the bounds of the model.
WithinBounds(e) ==
  \A i \in 1..Len(e.inventory) :
    LET item == e.inventory[i].item IN
    /\ item.quantity \in (0 - MaxNeg)..MaxQty
    /\ HasField(item, "level") => item.level <= MaxLevel

Engine(writeOk) ==
  [inventory |-> inventory, portalsVariables |-> portalsVariables,
   maxSlots |-> maxSlots, autoSave |-> autoSave, storage |-> storage,
   writeOk |-> writeOk, out |-> <<>>, err |-> NoErr, caught |-> NoErr,
   ret |-> NullObj]

\* The engine e left by a handler becomes the state; what it emitted,
\* caught and returned is kept for observation.
Commit(e, message) ==
  /\ WithinBounds(e)
  /\ pc' = "handled"
  /\ inventory' = e.inventory
  /\ portalsVariables' = e.portalsVariables
  /\ storage' = e.storage
  /\ msg' = message
  /\ pre' = inventory
  /\ out' = e.out
  /\ caught' = e.caught
  /\ escaped' = e.err
  /\ ret' = e.ret
  /\ UNCHANGED <<maxSlots, autoSave>>

\* The listener registered by initUnityMessageListener runs on `message`.
Receive(message, writeOk) ==
  Commit(handlePortalsMessage(Engine(writeOk), message), message)

AddItem ==
  /\ pc = "idle"
  /\ \E m \in AddItemMessages : Receive(Object(m), TRUE)

RemoveItem ==
  /\ pc = "idle"
  /\ \E m \in RemoveItemMessages : Receive(Object(m), TRUE)

UpdateItem ==
  /\ pc = "idle"
  /\ \E m \in UpdateItemMessages : Receive(Object(m), TRUE)

UseItem ==
  /\ pc = "idle"
  /\ \E m \in UseItemMessages : Receive(Object(m), TRUE)

TransferItem ==
  /\ pc = "idle"
  /\ \E m \in TransferItemMessages : Receive(Object(m), TRUE)

ClearInventory ==
  /\ pc = "idle"
  /\ Receive(Object([action |-> "clearInventory"]), TRUE)

Query ==
  /\ pc = "idle"
  /\ \E m \in QueryMessages : Receive(Object(m), TRUE)

SyncVariable ==
  /\ pc = "idle"
  /\ Receive(Object([action |-> "syncVariable", name |-> "_lastValue", value |-> 820]),
             TRUE)

PlantSeed ==
  /\ pc = "idle"
  /\ \E m \in PlantSeedMessages : Receive(Object(m), TRUE)

HarvestPlant ==
  /\ pc = "idle"
  /\ \E m \in HarvestPlantMessages : Receive(Object(m), TRUE)

UpgradeTool ==
  /\ pc = "idle"
  /\ \E m \in UpgradeToolMessages : Receive(Object(m), TRUE)

CraftItem ==
  /\ pc = "idle"
  /\ \E m \in CraftItemMessages : Receive(Object(m), TRUE)

\* An action outside the vocabulary, and an object that carries no action.
Unhandled ==
  /\ pc = "idle"
  /\ \E m \in {[action |-> "dance"], [itemId |-> "wood"]} : Receive(Object(m), TRUE)

\* A string that is a number.
NumericString ==
  /\ pc = "idle"
  /\ Receive([type |-> "numeric", data |-> [text |-> "820"]], TRUE)

\* A string that is neither a number nor JSON.
PlainString ==
  /\ pc = "idle"
  /\ Receive([type |-> "plain", data |-> [text |-> "hello"]], TRUE)

\* A string that holds the JSON text of a command.
JsonString ==
  /\ pc = "idle"
  /\ Receive([type |-> "json", data |-> [action |-> "removeItem", itemId |-> "wood"]],
             TRUE)

\* this.addItem(item, quantity) called directly: a failure goes to the caller.
CallAddItem ==
  /\ pc = "idle"
  /\ \E item \in ValidItems \cup {NamelessItem}, q \in QtyArgs \cup {Undefined} :
       Commit(addItem(Engine(TRUE), item, q),
              [type |-> "call",
               data |-> [method |-> "addItem", item |-> item, quantity |-> q]])

\* A caller runs this.addItem(item, q) and, when it returns, this.removeItem
\* (item.id, q); a failure of the first call goes to the caller, which stops.
AddThenRemove ==
  /\ pc = "idle"
  /\ \E item \in ValidItems, q \in 1..MaxQty :
       Commit(Then(addItem(Engine(TRUE), item, q),
                   LAMBDA e1 : removeItem(e1, item.id, q)),
              [type |-> "call",
               data |-> [method |-> "addThenRemove", item |-> item, quantity |-> q]])

\* An updateItem whose patch names id.
UpdateItemId ==
  /\ pc = "idle"
  /\ \E i \in Ids :
       Receive(Object([action |-> "updateItem", itemId |-> i,
                       updates |-> [id |-> "axe"]]), TRUE)

\* localStorage.setItem throws while the message is handled (the quota is
\* exceeded, or storage is disabled). Storage that fails does so from the
\* page load on: once a write has succeeded the later ones succeed too.
WriteFails ==
  /\ pc = "idle"
  /\ storage \in Blobs
  /\ \E m \in AddItemMessages \cup RemoveItemMessages
                \cup {[action |-> "clearInventory"]} :
       Receive(Object(m), FALSE)

\* The page is loaded again: new GardenInventory({ maxSlots, autoSave }) with
\* the same storageKey, on what localStorage holds. autoSave is the setting
\* of the application and stays; maxSlots may differ from the last run's.
Restart ==
  /\ pc = "idle"
  /\ \E slots \in 1..MaxSlots :
       LET options == [maxSlots |-> slots, autoSave |-> autoSave] IN
       /\ inventory' = Construct(options, storage).inventory
       /\ caught' = Construct(options, storage).caught
       /\ escaped' = Construct(options, storage).err
       /\ maxSlots' = slots
       /\ msg' = [type |-> "construct", data |-> options]
  /\ portalsVariables' = <<>>
  /\ pc' = "handled"
  /\ pre' = inventory
  /\ out' = <<>>
  /\ ret' = NullObj
  /\ UNCHANGED <<autoSave, storage>>

\* A caller runs this.importData(data): on this.exportData() of the engine
\* itself, on the snapshot of another store, or on data without items.
ImportData ==
  /\ pc = "idle"
  /\ \E d \in {[kind |-> "own", data |-> exportData(Engine(TRUE))],
                [kind |-> "other", data |-> SavedData],
                [kind |-> "itemless", data |-> ItemlessData]} :
       Commit(importData(Engine(TRUE), d.data),
              [type |-> "call",
               data |-> [method |-> "importData", kind |-> d.kind, data |-> d.data]])

\* The handler has returned to the transport, which may deliver the next
\* message; what was observed of the finished one is dropped.
Idle ==
  /\ pc = "handled"
  /\ pc' = "idle"
  /\ msg' = NoMessage
  /\ pre' = <<>>
  /\ out' = <<>>
  /\ caught' = NoErr
  /\ escaped' = NoErr
  /\ ret' = NullObj
  /\ UNCHANGED <<inventory, portalsVariables, maxSlots, autoSave, storage>>

\* new GardenInventory({ maxSlots }) on a page with nothing stored: autoSave
\* keeps its default (true).
Init ==
  \E slots \in 1..MaxSlots :
    LET e == Construct([maxSlots |-> slots, autoSave |-> TRUE], NoBlob) IN
    /\ inventory = e.inventory
    /\ portalsVariables = e.portalsVariables
    /\ maxSlots = e.maxSlots
    /\ autoSave = e.autoSave
    /\ storage = e.storage
    /\ pc = "idle"
    /\ msg = NoMessage
    /\ pre = <<>>
    /\ out = <<>>
    /\ caught = NoErr
    /\ escaped = NoErr
    /\ ret = NullObj

Next ==
  \/ AddItem
  \/ RemoveItem
  \/ UpdateItem
  \/ UseItem
  \/ TransferItem
  \/ ClearInventory
  \/ Query
  \/ SyncVariable
  \/ PlantSeed
  \/ HarvestPlant
  \/ UpgradeTool
  \/ CraftItem
  \/ Unhandled
  \/ NumericString
  \/ PlainString
  \/ JsonString
  \/ Idle

Spec == Init /\ [][Next]_vars

\* Only this.addItem is called, on a store that starts empty.
NextAdd ==
  \/ CallAddItem
  \/ Idle

SpecAdd == Init /\ [][NextAdd]_vars

\* addItem messages build the store; a caller then adds and removes again.
NextRoundTrip ==
  \/ AddItem
  \/ AddThenRemove
  \/ Idle

SpecRoundTrip == Init /\ [][NextRoundTrip]_vars

\* new GardenInventory({ maxSlots, autoSave }) on a page where nothing is
\* stored or where an earlier run has left its blob.
InitHydrate ==
  \E slots \in 1..MaxSlots, save \in BOOLEAN, blob \in {NoBlob, SavedBlob} :
    LET e == Construct([maxSlots |-> slots, autoSave |-> save], blob) IN
    /\ inventory = e.inventory
    /\ portalsVariables = e.portalsVariables
    /\ maxSlots = e.maxSlots
    /\ autoSave = e.autoSave
    /\ storage = e.storage
    /\ pc = "idle"
    /\ msg = NoMessage
    /\ pre = <<>>
    /\ out = <<>>
    /\ caught = NoErr
    /\ escaped = NoErr
    /\ ret = NullObj

\* The engine over its life: the messages that change the store, and page
\* loads that construct it anew on the persisted blob.
NextHydrate ==
  \/ AddItem
  \/ RemoveItem
  \/ UpdateItem
  \/ ClearInventory
  \/ HarvestPlant
  \/ UpgradeTool
  \/ CraftItem
  \/ UpdateItemId
  \/ Restart
  \/ Idle

SpecHydrate == InitHydrate /\ [][NextHydrate]_vars

\* new GardenInventory({ maxSlots, autoSave }) on a page whose localStorage
\* holds a blob of any kind, or none.
InitFaults ==
  \E slots \in 1..MaxSlots, save \in BOOLEAN, blob \in Blobs :
    LET e == Construct([maxSlots |-> slots, autoSave |-> save], blob) IN
    /\ inventory = e.inventory
    /\ portalsVariables = e.portalsVariables
    /\ maxSlots = e.maxSlots
    /\ autoSave = e.autoSave
    /\ storage = e.storage
    /\ pc = "idle"
    /\ msg = NoMessage
    /\ pre = <<>>
    /\ out = <<>>
    /\ caught = NoErr
    /\ escaped = NoErr
    /\ ret = NullObj

\* Messages handled while storage writes succeed or fail, and page loads on
\* whatever blob is left.
NextFaults ==
  \/ AddItem
  \/ RemoveItem
  \/ ClearInventory
  \/ WriteFails
  \/ Restart
  \/ Idle

SpecFaults == InitFaults /\ [][NextFaults]_vars

\* A caller takes snapshots and restores them, on stores built by addItem
\* and changed by removeItem messages.
NextRestore ==
  \/ AddItem
  \/ RemoveItem
  \/ ImportData
  \/ Idle

SpecRestore == InitHydrate /\ [][NextRestore]_vars


\* ================================================================== claims
\* What the formulas read off the observation of the last handled message.

Handled == pc = "handled"

\* The command the handler decoded (an object, or the JSON text of one).
IsCommand == Handled /\ msg.type \in {"object", "json"} /\ HasField(msg.data, "action")

Did(action) == IsCommand /\ msg.data.action = action

\* The target-state tokens of the notifications emitted, in order.
Tokens == LET n == SelectSeq(out, LAMBDA ev : ev.kind = "notify")
          IN [i \in 1..Len(n) |-> n[i].state]

Failed == caught # NoErr \/ escaped # NoErr

Qty(store, id) == MapGet(store, id).quantity

\* Every record other than the one under id is what it was.
OthersUnchanged(id) ==
  \A k \in Ids \ {id} :
    /\ MapHas(inventory, k) <=> MapHas(pre, k)
    /\ MapHas(pre, k) => MapGet(inventory, k) = MapGet(pre, k)

\* The record under id is what it was, but for its quantity.
SameButQuantity(id) ==
  /\ MapHas(inventory, id) /\ MapHas(pre, id)
  /\ [MapGet(inventory, id) EXCEPT !.quantity = 0] = [MapGet(pre, id) EXCEPT !.quantity = 0]

\* ------------------------------------------------------------------- C1
IsAddCall == Handled /\ msg.type = "call" /\ msg.data.method = "addItem"

AddedItem == msg.data.item

AddedQuantity == IF msg.data.quantity = Undefined THEN 1 ELSE msg.data.quantity

AddOfValidItem == IsAddCall /\ AddedItem \in ValidItems

AtCapacity == Len(pre) = maxSlots

\* C1: from an empty store, whatever add operations are run, the store never
\* holds more than maxSlots records; an add of an id the store does not hold,
\* run while the store holds maxSlots records, fails with CapacityExceeded and
\* leaves the store as it was; an add of an id the store holds, run at full
\* capacity, succeeds and merges the quantity into the record.
C1_AddRespectsCapacity ==
  /\ Len(inventory) <= maxSlots
  /\ (AddOfValidItem /\ AtCapacity /\ ~MapHas(pre, AddedItem.id)) =>
       (escaped = "CapacityExceeded" /\ inventory = pre)
  /\ (AddOfValidItem /\ AtCapacity /\ MapHas(pre, AddedItem.id)) =>
       /\ escaped = NoErr
       /\ SameButQuantity(AddedItem.id)
       /\ Qty(inventory, AddedItem.id) = Qty(pre, AddedItem.id) + AddedQuantity
       /\ OthersUnchanged(AddedItem.id)

\* An add of a new id was rejected at full capacity (after an add had filled
\* the store).
C1_Witness ==
  /\ AddOfValidItem /\ AtCapacity /\ ~MapHas(pre, AddedItem.id)
  /\ escaped = "CapacityExceeded"
  /\ Len(inventory) = maxSlots

\* ------------------------------------------------------------------- C2
\* C2: in every reachable state every record of the store has quantity >= 1.
C2_StoredQuantityPositive ==
  \A i \in 1..Len(inventory) : inventory[i].item.quantity >= 1

\* ------------------------------------------------------------- C3 and C4
IsCraft == Did("craftItem") /\ HasField(msg.data, "recipe")

IsUpgrade == Did("upgradeTool") /\ HasField(msg.data, "upgradeMaterials")

CraftQuantity == IF HasField(msg.data, "quantity") THEN msg.data.quantity ELSE 1

\* Some listed material is absent from the store or held in less than
\* material.quantity * k.
Short(store, materials, k) ==
  \E i \in 1..Len(materials) :
    \/ ~MapHas(store, materials[i].id)
    \/ Qty(store, materials[i].id) < materials[i].quantity * k

CraftShort == IsCraft /\ Short(pre, msg.data.recipe.materials, CraftQuantity)

UpgradeShort == IsUpgrade /\ Short(pre, msg.data.upgradeMaterials, 1)

\* The target of the upgrade passes the check upgradeTool makes first.
UpgradeTargetAccepted ==
  /\ MapHas(pre, msg.data.toolId)
  /\ MapGet(pre, msg.data.toolId).type = categories.TOOLS

\* C3 as stated: a craft or an upgradeTool that lists a material the store
\* holds too little of fails with InsufficientMaterial and changes nothing.
C3_Original ==
  (CraftShort \/ UpgradeShort) => (caught = "InsufficientMaterial" /\ inventory = pre)

\* C3 (amended): a craft or an upgradeTool that lists a material the store
\* holds too little of fails and leaves the whole store as it was; the failure
\* is InsufficientMaterial, except that upgradeTool checks its target first and
\* fails with InvalidTool when the target does not pass.
C3_AtomicOnInsufficientMaterial ==
  /\ CraftShort => (caught = "InsufficientMaterial" /\ inventory = pre)
  /\ UpgradeShort =>
       /\ inventory = pre
       /\ caught = IF UpgradeTargetAccepted THEN "InsufficientMaterial" ELSE "InvalidTool"

\* A craft whose first material is held in full and whose second is missing
\* was refused with nothing consumed.
C3_Witness ==
  /\ CraftShort
  /\ Len(msg.data.recipe.materials) = 2
  /\ MapHas(pre, msg.data.recipe.materials[1].id)
  /\ Qty(pre, msg.data.recipe.materials[1].id)
       >= msg.data.recipe.materials[1].quantity * CraftQuantity
  /\ Qty(pre, msg.data.recipe.materials[1].id) >= 1
  /\ caught = "InsufficientMaterial"
  /\ inventory = pre

\* C4: a craft or an upgradeTool that fails, for whatever reason, leaves the
\* store as it was.
C4_NoPartialEffect ==
  ((Did("craftItem") \/ Did("upgradeTool")) /\ Failed) => inventory = pre


\* ------------------------------------------------------------------- C5
\* The pieces a notification's task name is joined from.
Parts(task) == {task.prefix, task.action} \cup {task.itemId[i] : i \in 1..Len(task.itemId)}

ErrorPrefix == IF msg.data.action \in GardenActions THEN "garden" ELSE "inventory"

\* C5 as stated: no failure leaves the message handler, and a failure caught by
\* the dispatcher is reported by a notification with target state
\* SetActiveToNotActive that carries the action name and the failure kind.
C5_Original ==
  /\ Handled => escaped = NoErr
  /\ (Handled /\ caught # NoErr) =>
       \E i \in 1..Len(out) :
         /\ out[i].kind = "notify"
         /\ out[i].state = "SetActiveToNotActive"
         /\ msg.data.action \in Parts(out[i].task)
         /\ caught \in Parts(out[i].task)

\* C5 (amended): no failure leaves the message handler, whatever the message;
\* a failure raised by a store or resolver operation is caught by the
\* dispatcher, and the last thing the handler emits is the notification
\* <inventory|garden>_error_<action> with target state SetActiveToNotActive,
\* which carries the action name and not the failure kind.
C5_FailuresCaughtAndReported ==
  /\ Handled => escaped = NoErr
  /\ (Handled /\ caught # NoErr) =>
       /\ IsCommand
       /\ out # <<>>
       /\ out[Len(out)] =
            Notify([prefix |-> ErrorPrefix, action |-> "error",
                    itemId |-> <<msg.data.action>>],
                   "SetActiveToNotActive")

\* A command without its item payload was handled: the TypeError was caught
\* and reported.
C5_Witness ==
  /\ Did("addItem") /\ ~HasField(msg.data, "item")
  /\ caught = "TypeError" /\ escaped = NoErr
  /\ Tokens = <<"SetActiveToNotActive">>

\* ------------------------------------------------------------------- C6
\* C6: when a message changes the store, nothing is notified before the
\* change has been flushed: a flush precedes every notification.
C6_FlushBeforeNotification ==
  (IsCommand /\ autoSave /\ inventory # pre) =>
    \A i \in 1..Len(out) :
      out[i].kind = "notify" => \E j \in 1..(i - 1) : out[j].kind = "save"

\* ------------------------------------------------------------------- C7
\* C7: every message whose action is in the vocabulary is answered by at least
\* one notification.
C7_KnownActionNotifies ==
  (IsCommand /\ msg.data.action \in BaseActions \cup GardenActions) => Tokens # <<>>

\* ------------------------------------------------------------------- C8
FiveTokens ==
  {"SetNotActiveToActive", "SetNotActiveToCompleted", "SetActiveToActive",
   "SetActiveToCompleted", "SetActiveToNotActive"}

LastToken == Tokens[Len(Tokens)]

\* C8: the target-state tokens emitted for each outcome are: add of a new id
\* SetNotActiveToCompleted; add to an existing id SetNotActiveToActive; partial
\* removal SetActiveToActive; full removal SetActiveToCompleted; use and
\* transfer, after the token of their removal, SetActiveToCompleted; clear
\* SetActiveToCompleted; add rejected for capacity SetNotActiveToActive; a
\* failure caught by the dispatcher SetActiveToNotActive, last; and no token
\* is outside the five-token set.
C8_TargetStateTokens ==
  /\ \A i \in 1..Len(Tokens) : Tokens[i] \in FiveTokens
  /\ (Did("addItem") /\ ~Failed) =>
       Tokens = IF MapHas(pre, msg.data.item.id)
                THEN <<"SetNotActiveToActive">> ELSE <<"SetNotActiveToCompleted">>
  /\ (Did("removeItem") /\ ~Failed) =>
       Tokens = IF MapHas(inventory, msg.data.itemId)
                THEN <<"SetActiveToActive">> ELSE <<"SetActiveToCompleted">>
  /\ ((Did("useItem") \/ Did("transferItem")) /\ ~Failed) =>
       Tokens = IF MapHas(inventory, msg.data.itemId)
                THEN <<"SetActiveToActive", "SetActiveToCompleted">>
                ELSE <<"SetActiveToCompleted", "SetActiveToCompleted">>
  /\ Did("clearInventory") => Tokens = <<"SetActiveToCompleted">>
  /\ (Did("addItem") /\ caught = "CapacityExceeded") =>
       Tokens = <<"SetNotActiveToActive", "SetActiveToNotActive">>
  /\ (Handled /\ caught # NoErr) => (Tokens # <<>> /\ LastToken = "SetActiveToNotActive")

\* An add was rejected for capacity: the two tokens of that outcome.
C8_Witness ==
  /\ Did("addItem") /\ caught = "CapacityExceeded"
  /\ Tokens = <<"SetNotActiveToActive", "SetActiveToNotActive">>

\* ------------------------------------------------------------ C9 and C10
RemovedId == StrField(msg.data, "itemId")

RemovedQuantity == NumField(msg.data, "quantity")

\* C9: remove(id, q) on a present id holding c: with q null or q >= c the
\* record is deleted and the result is (removed, c); with 0 < q < c the record
\* stays with c - q and the result is (not removed, q, remaining c - q); on an
\* absent id it fails with NotFound and changes nothing. No other record is
\* changed in any case.
C9_RemoveSemantics ==
  Did("removeItem") =>
    IF ~MapHas(pre, RemovedId)
    THEN caught = "NotFound" /\ inventory = pre
    ELSE LET c == Qty(pre, RemovedId)
             q == RemovedQuantity
         IN /\ (q = Undefined \/ q >= c) =>
                 /\ ~Failed
                 /\ ~MapHas(inventory, RemovedId)
                 /\ ret = [removed |-> TRUE, quantity |-> c]
                 /\ OthersUnchanged(RemovedId)
            /\ (q # Undefined /\ 0 < q /\ q < c) =>
                 /\ ~Failed
                 /\ SameButQuantity(RemovedId)
                 /\ Qty(inventory, RemovedId) = c - q
                 /\ ret = [removed |-> FALSE, quantity |-> q, remaining |-> c - q]
                 /\ OthersUnchanged(RemovedId)

\* A partial removal happened while the store held another record.
C9_Witness ==
  /\ Did("removeItem") /\ MapHas(pre, RemovedId)
  /\ RemovedQuantity # Undefined
  /\ 0 < RemovedQuantity /\ RemovedQuantity < Qty(pre, RemovedId)
  /\ Len(pre) = 2
  /\ ret = [removed |-> FALSE, quantity |-> RemovedQuantity,
            remaining |-> Qty(pre, RemovedId) - RemovedQuantity]

\* C10: remove(id, q) with a non-null q <= 0 on a present id fails with
\* InvalidArgument and leaves the store unchanged.
C10_RemoveRejectsNonPositive ==
  (Did("removeItem") /\ MapHas(pre, RemovedId)
     /\ RemovedQuantity # Undefined /\ RemovedQuantity <= 0) =>
    (caught = "InvalidArgument" /\ inventory = pre)

\* ------------------------------------------------------------------ C11
UsedId == StrField(msg.data, "itemId")

\* The quantity the dispatcher hands to useItem: params.quantity || 1.
UsedQuantity == OrOne(NumField(msg.data, "quantity"))

\* consumable === true, or type seed / fertilizer.
MayBeUsed(record) ==
  \/ (HasField(record, "consumable") /\ record.consumable = TRUE)
  \/ record.type \in {"seed", "fertilizer"}

\* What remove(id, q) does to a store that holds c under id: the record is
\* deleted when q >= c, and is left with c - q otherwise; nothing else changes.
RemoveEffect(id, q) ==
  LET c == Qty(pre, id) IN
  /\ q >= c => ~MapHas(inventory, id)
  /\ q < c => (SameButQuantity(id) /\ Qty(inventory, id) = c - q)
  /\ OthersUnchanged(id)

\* C11: use(id, q) fails NotFound on an absent id, InsufficientQuantity when
\* the held quantity is less than q, NotConsumable unless the record has
\* consumable true or type seed or fertilizer, each with the store unchanged;
\* on success it has exactly the store effect of remove(id, q).
C11_UseSemantics ==
  Did("useItem") =>
    IF ~MapHas(pre, UsedId)
    THEN caught = "NotFound" /\ inventory = pre
    ELSE IF Qty(pre, UsedId) < UsedQuantity
    THEN caught = "InsufficientQuantity" /\ inventory = pre
    ELSE IF ~MayBeUsed(MapGet(pre, UsedId))
    THEN caught = "NotConsumable" /\ inventory = pre
    ELSE ~Failed /\ RemoveEffect(UsedId, UsedQuantity)

\* A record of type seed holding 2 was used once (1 left), while the store
\* held another record.
C11_Witness ==
  /\ Did("useItem") /\ MapHas(pre, UsedId)
  /\ MapGet(pre, UsedId).type = "seed"
  /\ Qty(pre, UsedId) = 2 /\ UsedQuantity = 1
  /\ MapHas(inventory, UsedId) /\ Qty(inventory, UsedId) = 1
  /\ Len(pre) = 2
  /\ ~Failed

\* ------------------------------------------------------------------ C12
PlantedId == StrField(msg.data, "seedId")

\* C12: plantSeed(seedId) succeeds exactly when the store holds seedId with
\* type seed (and quantity >= 1): it then consumes exactly 1 unit of the record
\* and returns its plantType and growthTime; on an absent id or a record of
\* another type it fails with InvalidSeed and the store is unchanged.
C12_PlantSeedOfTypeSeed ==
  Did("plantSeed") =>
    IF MapHas(pre, PlantedId) /\ MapGet(pre, PlantedId).type = "seed"
    THEN Qty(pre, PlantedId) >= 1 =>
           /\ ~Failed
           /\ RemoveEffect(PlantedId, 1)
           /\ ret.seedType = StrField(MapGet(pre, PlantedId), "plantType")
           /\ ret.growthTime = NumField(MapGet(pre, PlantedId), "growthTime")
    ELSE caught = "InvalidSeed" /\ inventory = pre

\* ------------------------------------------------------------------ C13
\* The quantity held under id (0 when the id is absent).
Held(store, id) == IF MapHas(store, id) THEN Qty(store, id) ELSE 0

RECURSIVE Required(_, _, _, _)
\* The sum of material.quantity * k over the entries i.. of materials that
\* name id.
Required(materials, id, k, i) ==
  IF i > Len(materials) THEN 0
  ELSE (IF materials[i].id = id THEN materials[i].quantity * k ELSE 0)
       + Required(materials, id, k, i + 1)

\* level, a missing level counting as 1.
LevelOf(record) == IF HasField(record, "level") THEN record.level ELSE 1

UpgradedId == StrField(msg.data, "toolId")

\* C13: upgradeTool(toolId, materials) on a target that is absent or not of
\* the tool type fails with InvalidTool and changes nothing; on a target of
\* the tool type it succeeds exactly when every listed material is held in
\* sufficient quantity, and then the listed quantities are consumed, the
\* upgraded record is still in the store and its level is one more than before.
C13_UpgradeTool ==
  IsUpgrade =>
    IF ~UpgradeTargetAccepted
    THEN caught = "InvalidTool" /\ inventory = pre
    ELSE /\ Failed <=> UpgradeShort
         /\ ~Failed =>
              /\ MapHas(inventory, UpgradedId)
              /\ LevelOf(MapGet(inventory, UpgradedId))
                   = LevelOf(MapGet(pre, UpgradedId)) + 1
              /\ \A id \in Ids :
                   Held(inventory, id)
                     = Held(pre, id) - Required(msg.data.upgradeMaterials, id, 1, 1)

\* ------------------------------------------------------------------ C14
TransferredId == StrField(msg.data, "itemId")

TransferredQuantity == NumField(msg.data, "quantity")

TransferTarget == StrField(msg.data, "targetId")

\* The last notification of the handling.
LastNotification ==
  LET n == SelectSeq(out, LAMBDA ev : ev.kind = "notify") IN n[Len(n)]

\* C14: transferItem(id, q, targetId) fails NotFound on an absent id and
\* InsufficientQuantity when the held quantity is less than q, both with the
\* store unchanged; otherwise it has exactly the store effect of remove(id, q)
\* (the whole record when q is not given), the record of a targetId other than
\* id is neither created nor changed, and the notification of the transfer
\* names id and targetId.
C14_TransferIsOneSidedDebit ==
  Did("transferItem") =>
    IF ~MapHas(pre, TransferredId)
    THEN caught = "NotFound" /\ inventory = pre
    ELSE IF TransferredQuantity # Undefined
            /\ Qty(pre, TransferredId) < TransferredQuantity
    THEN caught = "InsufficientQuantity" /\ inventory = pre
    ELSE /\ ~Failed
         /\ IF TransferredQuantity = Undefined
            THEN ~MapHas(inventory, TransferredId) /\ OthersUnchanged(TransferredId)
            ELSE RemoveEffect(TransferredId, TransferredQuantity)
         /\ TransferTarget # TransferredId =>
              /\ MapHas(inventory, TransferTarget) <=> MapHas(pre, TransferTarget)
              /\ MapHas(pre, TransferTarget) =>
                   MapGet(inventory, TransferTarget) = MapGet(pre, TransferTarget)
         /\ LastNotification =
              Notify(getTaskName("transfer", <<TransferredId, "to", TransferTarget>>),
                     "SetActiveToCompleted")

\* The whole held quantity of a record was transferred to a target that is
\* itself a record of the store: the record is gone, the target's is as it was.
C14_Witness ==
  /\ Did("transferItem") /\ MapHas(pre, TransferredId)
  /\ TransferredQuantity = Qty(pre, TransferredId) /\ TransferredQuantity >= 1
  /\ TransferTarget # TransferredId /\ MapHas(pre, TransferTarget)
  /\ ~MapHas(inventory, TransferredId)
  /\ MapGet(inventory, TransferTarget) = MapGet(pre, TransferTarget)
  /\ TransferTarget \in {LastNotification.task.itemId[i] :
                           i \in 1..Len(LastNotification.task.itemId)}

\* ------------------------------------------------------------------ C15
IsRoundTrip == Handled /\ msg.type = "call" /\ msg.data.method = "addThenRemove"

\* C15: for every store, every valid item and every quantity q >= 1 for which
\* add(item, q) succeeds, a following remove(item.id, q) returns the store to
\* what it was before the add: a new id is gone again, a held id has the
\* quantity it had, and every other record is unchanged.
C15_AddRemoveRoundTrip ==
  (IsRoundTrip /\ escaped = NoErr) => inventory = pre

\* ------------------------------------------------------------------ C16
IsImport == Handled /\ msg.type = "call" /\ msg.data.method = "importData"

\* The store holds exactly the records of items, each under its id.
HoldsExactly(store, items) ==
  /\ {store[i].key : i \in 1..Len(store)} = {items[i].id : i \in 1..Len(items)}
  /\ \A i \in 1..Len(items) : MapGet(store, items[i].id) = items[i]

\* C16: restore(snapshot(S)) completes and yields a store equal to S; a
\* snapshot restored into a store that holds other records completes and
\* leaves exactly the snapshot's records; restore of data without an items
\* field fails with InvalidImportData.
C16_SnapshotRestoreRoundTrip ==
  IsImport =>
    CASE msg.data.kind = "own" -> escaped = NoErr /\ inventory = pre
      [] msg.data.kind = "other" ->
           escaped = NoErr /\ HoldsExactly(inventory, msg.data.data.items)
      [] OTHER -> escaped = "InvalidImportData" /\ inventory = pre

\* ------------------------------------------------------------------ C17
\* C17: in every reachable state of the engine, states reached by hydration
\* from a persisted blob, by restore, by harvest and by craft included, the
\* store holds at most maxSlots records (so emptySlots is never negative).
C17_SizeWithinCapacity ==
  /\ Len(inventory) <= maxSlots
  /\ getInventory(Engine(TRUE)).emptySlots >= 0

\* ------------------------------------------------------------------ C18
\* The store an engine constructed now, with autoSave on and the same
\* storageKey, hydrates to.
Hydrated ==
  Construct([maxSlots |-> maxSlots, autoSave |-> TRUE], storage).inventory

Flushes == SelectSeq(out, LAMBDA ev : ev.kind = "save")

\* C18: with autoSave on and storage writes succeeding, when the handling of
\* a command ends, with success or failure, an engine constructed on the
\* persisted blob hydrates to a store equal to the in-memory one; with
\* autoSave off no command writes the blob and construction does not read it.
C18_BlobMirrorsStore ==
  /\ (IsCommand /\ autoSave) => Hydrated = inventory
  /\ (IsCommand /\ ~autoSave) => Flushes = <<>>
  /\ (Handled /\ msg.type = "construct" /\ ~autoSave) => inventory = <<>>

\* ------------------------------------------------------------------ C19
\* The blob is missing, is not parseable, or parses to data without an
\* array-typed items field.
BadBlob(blob) ==
  \/ blob.kind \in {"none", "corrupt"}
  \/ ~HasField(blob.data, "items")
  \/ ~ItemsIsArray(blob.data)

FlushFailed == \E i \in 1..Len(out) : out[i] = Flush(FALSE)

Notifications == SelectSeq(out, LAMBDA ev : ev.kind = "notify")

\* The handling of the same message by an engine that holds the same
\* records, has nothing stored and whose storage writes succeed.
Healthy ==
  handlePortalsMessage(
    [Engine(TRUE) EXCEPT !.inventory = pre, !.storage = NoBlob], msg)

\* C19: construction on a blob that is missing, unparseable or without an
\* array-typed items field completes, with an empty store; every command the
\* engine then handles, and every command during which the storage write of
\* the flush fails, ends as it does on an engine with sound storage: same
\* store, same result, same notifications, same failure if any.
C19_FaultsNeverFail ==
  /\ (Handled /\ msg.type = "construct" /\ BadBlob(storage))
       => escaped = NoErr /\ inventory = <<>>
  /\ IsCommand
       => /\ inventory = Healthy.inventory
          /\ ret = Healthy.ret
          /\ caught = Healthy.caught
          /\ escaped = Healthy.err
          /\ Notifications = SelectSeq(Healthy.out, LAMBDA ev : ev.kind = "notify")

\* An engine constructed on an unparseable blob adds a record although the
\* write of the flush fails.
C19_Witness ==
  /\ Did("addItem") /\ FlushFailed /\ storage = CorruptBlob
  /\ ~Failed /\ Len(inventory) = Len(pre) + 1

\* ------------------------------------------------------------------ C20
\* The k of a craft: payload.quantity, 1 when it is missing.
CraftedQuantity == IF HasField(msg.data, "quantity") THEN msg.data.quantity ELSE 1

\* C20: when a craft of k >= 1 units succeeds, the quantity held under every
\* id has gone down by the sum of material.quantity * k over the recipe's
\* entries that name the id, and up by k where the id is the result's.
C20_CraftConservation ==
  (Did("craftItem") /\ ~Failed /\ CraftedQuantity >= 1) =>
    \A id \in Ids :
      Held(inventory, id)
        = Held(pre, id)
          - Required(msg.data.recipe.materials, id, CraftedQuantity, 1)
          + (IF msg.data.recipe.result.id = id THEN CraftedQuantity ELSE 0)

\* ------------------------------------------------------------------ C21
\* C21: in every state the record stored under a key carries that key as its
\* id, so no two keys hold records with the same id; and after a command
\* that flushed the store, every key of the store is a key of the store an
\* engine constructed on the persisted blob hydrates to.
C21_KeyIdConsistency ==
  /\ \A i \in 1..Len(inventory) :
       StrField(inventory[i].item, "id") = inventory[i].key
  /\ \A i, j \in 1..Len(inventory) :
       StrField(inventory[i].item, "id") = StrField(inventory[j].item, "id")
         => i = j
  /\ (IsCommand /\ \E n \in 1..Len(out) : out[n] = Flush(TRUE))
       => \A i \in 1..Len(inventory) : MapHas(Hydrated, inventory[i].key)

====
